---------------------------- MODULE Spec2Model ----------------------------
(***************************************************************************)
(* A model of the http_prefetching Chrome extension: the background        *)
(* NumericPriorityScheduler (src/scheduler/numericpriorityscheduler.js),   *)
(* its TimeTracker (src/scheduler/timetracker.js) and the part of the      *)
(* content script that classifies timing logs (src/scheduler/content.js).  *)
(*                                                                         *)
(* Every webRequest listener runs to completion on the extension's single  *)
(* event loop, so each handler is one atomic action.                       *)
(*                                                                         *)
(* Abstractions, all stated here:                                          *)
(*  - URLs, request ids and resource types are opaque strings.             *)
(*  - An x-prefetch value is held as the sequence of its entries after     *)
(*    split(DELIMETER), each entry as its three ';'-fields after trimming: *)
(*    the URL between '<' and '>', the decimal text after 'priority=' (a   *)
(*    sequence of characters) and the token after 'type='.                 *)
(*  - INFO and DEBUG notifications carry performance.now() text and are    *)
(*    not recorded; PREFETCH/PRELOAD, LOG_TIMING and NAVIGATED_TO_DST are. *)
(*  - A PrefetchResource carries two history fields, seq (its position in  *)
(*    the order of parsing) and tier (the bucket it was pushed to), that   *)
(*    the code does not read.                                              *)
(***************************************************************************)
EXTENDS Integers, Sequences, FiniteSets, TLC

\* ------------------------------------------------------------------------
\* Program constants
\* ------------------------------------------------------------------------
NUM_PRIORITIES == 100

OUTSTANDING_REQUESTS_ALLOWED == 7

MAX_MAIN_FRAME_PRIORITY == 2

\* MessageType (src/unnamed/part_000)
CONTENT_SCRIPT_INIT == "content_script_init"
PREFETCH_RESOURCE == "prefetch_resource"
PRELOAD_RESOURCE == "preload_resource"
COMPLETED == "completed"
LOG_TIMING == "log_timing"
NAVIGATED_TO_DST == "navigated_to_dst"

\* PrefetchStatus (timetracker.js)
PrefetchStatus == [YES |-> "yes", NO |-> "no", UNKNOWN |-> "unknown"]

\* ------------------------------------------------------------------------
\* Bounds of the model
\* ------------------------------------------------------------------------
\* Resources parsed from hints in one run of the general specification.
MaxParsed == 2
\* URLs of the capacity specification; one hint names them all in one tier.
CapUrls == 8
\* Resources parsed in one run of the navigation specification.
NavParsed == 1
\* Entries parsed in one run of the parsing specification.
ParseParsed == 3
\* Largest timestamp of the TimeTracker specification.
TTMaxTime == 2
\* Resources parsed in one run of the progress specification.
LiveParsed == 2

UrlName == <<"u1", "u2", "u3", "u4", "u5", "u6", "u7", "u8", "u9", "u10", "u11", "u12">>

Tiers == 0 .. (NUM_PRIORITIES - 1)

VARIABLES
  dependencies,              \* this.dependencies_ : tier -> sequence of PrefetchResource
  outstandingPrefetchUrls,   \* this.outstandingPrefetchUrls_
  timeTracker,               \* this.timeTracker : [requestTimes, completeTimes, prefetched]
  requestedURLs,             \* this.requestedURLs_
  lpUrl,                     \* this.lpUrl
  navigatedToDst,            \* this.navigatedToDst_
  queuedPrefetches,          \* this.queuedPrefetches_
  curFetchPriority,          \* this.curFetchPriority_
  didInit,                   \* this.didInit_
  initializedContentScript,  \* this.initializedContentScript_
  listeners,                 \* number of times the listeners are registered with chrome
  notified,                  \* messages passed to notifyContentScript_ by the latest handler, in order
  returned,                  \* what the latest call returned, [kind |-> "undefined"] when nothing
  threw,                     \* whether the latest handler ended in a TypeError
  fetched,                   \* the calls of fetchDependency made by the latest handler, in order
  passed,                    \* history: seq, tier and outcome of every fetchDependency call, in order
  registered,                \* history: request id -> the arguments of its latest registerRequest
  parsedCount                \* history: number of resources constructed by the parser so far

vars == <<dependencies, outstandingPrefetchUrls, timeTracker, requestedURLs, lpUrl,
          navigatedToDst, queuedPrefetches, curFetchPriority, didInit,
          initializedContentScript, listeners, notified, returned, threw, fetched,
          passed, registered, parsedCount>>

\* ------------------------------------------------------------------------
\* TimeTracker (timetracker.js)
\* ------------------------------------------------------------------------
NewTimeTracker ==
  [requestTimes |-> <<>>, completeTimes |-> <<>>, prefetched |-> <<>>]

\* Map.prototype.set
MapSet(m, k, v) == [x \in (DOMAIN m) \cup {k} |-> IF x = k THEN v ELSE m[x]]

\* Mutant: an entry that exists keeps its complete time.
RegisterRequestKeepsComplete(tt, requestID, requestTimestampMs, isPrefetch) ==
  [requestTimes  |-> MapSet(tt.requestTimes, requestID, requestTimestampMs),
   completeTimes |-> IF requestID \in DOMAIN tt.completeTimes THEN tt.completeTimes
                     ELSE MapSet(tt.completeTimes, requestID, -1),
   prefetched    |-> MapSet(tt.prefetched, requestID, isPrefetch)]

RegisterRequest(tt, requestID, requestTimestampMs, isPrefetch) ==
  [requestTimes  |-> MapSet(tt.requestTimes, requestID, requestTimestampMs),
   completeTimes |-> MapSet(tt.completeTimes, requestID, -1),
   prefetched    |-> MapSet(tt.prefetched, requestID, isPrefetch)]

\* Mutant: the complete time is recorded before the id is looked up.
CompleteRequestUnchecked(tt, requestID, completeTimestampMs) ==
  LET recorded == [tt EXCEPT !.completeTimes =
                      MapSet(tt.completeTimes, requestID, completeTimestampMs)]
  IN  IF requestID \notin DOMAIN tt.requestTimes
        THEN [tt |-> recorded, ret |-> -1]
        ELSE [tt |-> recorded,
              ret |-> completeTimestampMs - tt.requestTimes[requestID]]

\* Mutant: the difference is taken the other way round.
CompleteRequestSwapped(tt, requestID, completeTimestampMs) ==
  IF requestID \notin DOMAIN tt.requestTimes
    THEN [tt |-> tt, ret |-> -1]
    ELSE LET requestTime == tt.requestTimes[requestID]
             fetchTime == requestTime - completeTimestampMs
         IN  [tt  |-> [tt EXCEPT !.completeTimes =
                          MapSet(tt.completeTimes, requestID, completeTimestampMs)],
              ret |-> fetchTime]

\* The tracker after completeRequest, and the value it returns.
CompleteRequest(tt, requestID, completeTimestampMs) ==
  IF requestID \notin DOMAIN tt.requestTimes
    THEN [tt |-> tt, ret |-> -1]
    ELSE LET requestTime == tt.requestTimes[requestID]
             fetchTime == completeTimestampMs - requestTime
         IN  [tt  |-> [tt EXCEPT !.completeTimes =
                          MapSet(tt.completeTimes, requestID, completeTimestampMs)],
              ret |-> fetchTime]

\* Mutant: an id without entry is answered from the flag map, which has none.
IsPrefetchRequestDefaultNo(tt, requestID) ==
  IF requestID \in DOMAIN tt.prefetched /\ tt.prefetched[requestID]
    THEN PrefetchStatus.YES ELSE PrefetchStatus.NO

IsPrefetchRequest(tt, requestID) ==
  IF requestID \notin DOMAIN tt.requestTimes
    THEN PrefetchStatus.UNKNOWN
    ELSE IF tt.prefetched[requestID] THEN PrefetchStatus.YES ELSE PrefetchStatus.NO

GetRequestTime(tt, requestID) ==
  IF requestID \notin DOMAIN tt.requestTimes THEN -1 ELSE tt.requestTimes[requestID]

GetCompleteTime(tt, requestID) ==
  IF requestID \notin DOMAIN tt.completeTimes THEN -1 ELSE tt.completeTimes[requestID]

\* ------------------------------------------------------------------------
\* Content script (content.js)
\* ------------------------------------------------------------------------
\* handleLogTiming: the line written for a LOG_TIMING message, as its fields.
HandleLogTiming(msg) ==
  [url |-> msg.url, requestId |-> msg.requestId, fetchTime |-> msg.fetchTime,
   requestTimestampMs |-> msg.requestTimestampMs,
   completeTimestampMs |-> msg.completeTimestampMs,
   classification |->
     IF msg.isPrefetch = "yes" THEN "PREFETCH"
     ELSE IF msg.isPrefetch = "no" THEN "ACTUAL"
     ELSE IF msg.isPrefetch = "late" THEN "LATE_PREFETCH"
     ELSE "UNKNOWN"]

\* ------------------------------------------------------------------------
\* Hint parsing (numericpriorityscheduler.js, parsePrefetchURLs)
\* ------------------------------------------------------------------------
DigitValue(c) ==
  CASE c = "0" -> 0 [] c = "1" -> 1 [] c = "2" -> 2 [] c = "3" -> 3 [] c = "4" -> 4
    [] c = "5" -> 5 [] c = "6" -> 6 [] c = "7" -> 7 [] c = "8" -> 8 [] c = "9" -> 9

RECURSIVE ParseDigits(_, _)
ParseDigits(chars, acc) ==
  IF chars = <<>> THEN acc
  ELSE ParseDigits(Tail(chars), 10 * acc + DigitValue(Head(chars)))

\* parseInt(text, 10) of an optional '-' followed by decimal digits.
ParseInt(chars) ==
  IF chars # <<>> /\ Head(chars) = "-"
    THEN 0 - ParseDigits(Tail(chars), 0)
    ELSE ParseDigits(chars, 0)

\* Mutant: the priority is used as the index without Math.min.
TargetPriorityUnclamped(priority) == priority

\* Math.min(priority, NUM_PRIORITIES - 1)
TargetPriority(priority) ==
  IF priority < NUM_PRIORITIES - 1 THEN priority ELSE NUM_PRIORITIES - 1

PrefetchResource(url, type, seq, tier) ==
  [url |-> url, type |-> type, seq |-> seq, tier |-> tier]

\* One pass of the forEach body over the entries still to parse.  ps is
\* [deps, count, threw].  dependencies[targetPriority] is undefined when
\* targetPriority is no index of the array, and the push on it raises a
\* TypeError that ends the whole handler.
RECURSIVE ParseEntries(_, _)
ParseEntries(ps, entries) ==
  IF entries = <<>> \/ ps.threw THEN ps
  ELSE LET element == Head(entries)
           url == element.url
           priority == ParseInt(element.priority)
           targetPriority == TargetPriority(priority)
           type == element.type
           prefetchResource ==
             PrefetchResource(url, type, ps.count + 1, targetPriority)
       IN  IF targetPriority \notin DOMAIN ps.deps
             THEN [ps EXCEPT !.threw = TRUE]
             ELSE ParseEntries(
                    [ps EXCEPT !.deps[targetPriority] = Append(@, prefetchResource),
                               !.count = @ + 1],
                    Tail(entries))

ParsePrefetchURLs(ps, prefetchStr) == ParseEntries(ps, prefetchStr)

\* String.prototype.toLowerCase on the header names and values that occur.
ToLowerCase(s) ==
  CASE s = "X-Prefetch" -> "x-prefetch"
    [] s = "X-LP-URL" -> "x-lp-url"
    [] s = "Purpose" -> "purpose"
    [] s = "Prefetch" -> "prefetch"
    [] OTHER -> s


\* ------------------------------------------------------------------------
\* Scheduler (numericpriorityscheduler.js)
\* ------------------------------------------------------------------------
\* Mutant: the header is compared as written, without toLowerCase.
IsPrefetchRequestHeadersCaseSensitive(requestHeaders) ==
  \E i \in 1 .. Len(requestHeaders) :
    /\ requestHeaders[i].name = "purpose"
    /\ requestHeaders[i].value = "prefetch"

\* isPrefetchRequest_: some header is Purpose: prefetch, compared in lower case.
IsPrefetchRequestHeaders(requestHeaders) ==
  \E i \in 1 .. Len(requestHeaders) :
    /\ ToLowerCase(requestHeaders[i].name) = "purpose"
    /\ ToLowerCase(requestHeaders[i].value) = "prefetch"

\* Mutant: the scan keeps the last non-empty bucket instead of the first.
NextPriorityLast(deps) ==
  LET nonEmpty == {i \in DOMAIN deps : Len(deps[i]) > 0}
  IN  IF nonEmpty = {} THEN -1
      ELSE CHOOSE i \in nonEmpty : \A j \in nonEmpty : i >= j

\* The loop of handleFetchCompleted that finds the first non-empty bucket;
\* -1 when there is none.
NextPriority(deps) ==
  LET nonEmpty == {i \in DOMAIN deps : Len(deps[i]) > 0}
  IN  IF nonEmpty = {} THEN -1
      ELSE CHOOSE i \in nonEmpty : \A j \in nonEmpty : i <= j

\* The early return of handleFetchCompleted.
NoCapacity(outstanding) ==
  Cardinality(outstanding) >= OUTSTANDING_REQUESTS_ALLOWED

\* Mutant: a bucket is queued as soon as the queue is empty, in flight or not.
MayEnqueueWhileOutstanding(outstanding, nextPriority, queued) ==
  nextPriority # -1 /\ Len(queued) = 0

\* The condition under which handleFetchCompleted queues a bucket.
MayEnqueue(outstanding, nextPriority, queued) ==
  Cardinality(outstanding) = 0 /\ nextPriority # -1 /\ Len(queued) = 0

\* Mutant: the fetch loop admits one request more than the ceiling.
MayFetchOffByOne(outstanding, queued) ==
  Cardinality(outstanding) <= OUTSTANDING_REQUESTS_ALLOWED /\ Len(queued) > 0

\* The condition of the fetch loop of handleFetchCompleted.
MayFetch(outstanding, queued) ==
  Cardinality(outstanding) < OUTSTANDING_REQUESTS_ALLOWED /\ Len(queued) > 0

\* Mutant: the main-frame bound is compared with >= instead of >.
DirectiveTypeOffByOne(navigated, priority) ==
  IF priority >= MAX_MAIN_FRAME_PRIORITY THEN PREFETCH_RESOURCE
  ELSE IF navigated THEN PRELOAD_RESOURCE ELSE PREFETCH_RESOURCE

\* The message type fetchDependency chooses.
DirectiveType(navigated, priority) ==
  IF priority > MAX_MAIN_FRAME_PRIORITY THEN PREFETCH_RESOURCE
  ELSE IF navigated THEN PRELOAD_RESOURCE ELSE PREFETCH_RESOURCE

\* Mutant: the set of requested URLs is never consulted.
AlreadyRequestedNever(requested, url) == FALSE

\* Whether fetchDependency takes its "already requested" branch.
AlreadyRequested(requested, url) == url \in requested

LateMsg(url) ==
  [type |-> LOG_TIMING, url |-> url, requestId |-> "", fetchTime |-> -1,
   requestTimestampMs |-> -1, completeTimestampMs |-> -1, isPrefetch |-> "late"]

\* fetchDependency on the scheduling state st =
\* [deps, queued, cur, outstanding, notified, fetched, passed].
FetchDependency(st, resource, priority) ==
  LET url == resource.url IN
  IF AlreadyRequested(requestedURLs, url)
    THEN [st EXCEPT !.notified = Append(@, LateMsg(url)),
                    !.fetched = Append(@, [resource |-> resource, priority |-> priority,
                                           outcome |-> "late"]),
                    !.passed = Append(@, [seq |-> resource.seq, tier |-> resource.tier,
                                          outcome |-> "late"])]
    ELSE LET msgType == DirectiveType(navigatedToDst, priority)
             msg == [type |-> msgType, url |-> resource.url,
                     resourceType |-> resource.type]
         IN  [st EXCEPT !.notified = Append(@, msg),
                        !.outstanding = @ \cup {url},
                        !.fetched = Append(@, [resource |-> resource,
                                               priority |-> priority,
                                               outcome |-> msgType]),
                        !.passed = Append(@, [seq |-> resource.seq,
                                              tier |-> resource.tier,
                                              outcome |-> msgType])]

\* Mutant: the fetch loop takes the dependency queued last.
RECURSIVE FetchLoopLast(_)
FetchLoopLast(st) ==
  IF MayFetch(st.outstanding, st.queued)
    THEN LET dependency == st.queued[Len(st.queued)]
         IN  FetchLoopLast(FetchDependency(
               [st EXCEPT !.queued = SubSeq(@, 1, Len(@) - 1)], dependency, st.cur))
    ELSE st

\* The while loop that fetches from the queued dependencies.
RECURSIVE FetchLoop(_)
FetchLoop(st) ==
  IF MayFetch(st.outstanding, st.queued)
    THEN LET dependency == Head(st.queued)
         IN  FetchLoop(FetchDependency([st EXCEPT !.queued = Tail(@)],
                                       dependency, st.cur))
    ELSE st

\* Mutant: the bucket is moved to the queue from its end.
EnqueueReversed(st, nextPriority) ==
  LET bucket == st.deps[nextPriority]
      n == Len(bucket)
  IN  [st EXCEPT !.queued = @ \o [i \in 1 .. n |-> bucket[n + 1 - i]],
                 !.deps[nextPriority] = <<>>,
                 !.cur = nextPriority]

\* Mutant: the bucket is moved to the queue and curFetchPriority_ is left
\* as it was.
EnqueueKeepsPriority(st, nextPriority) ==
  [st EXCEPT !.queued = @ \o st.deps[nextPriority],
             !.deps[nextPriority] = <<>>]

\* The block that moves the whole bucket nextPriority to the queue.
Enqueue(st, nextPriority) ==
  [st EXCEPT !.queued = @ \o st.deps[nextPriority],
             !.deps[nextPriority] = <<>>,
             !.cur = nextPriority]

\* Mutant: handleFetchCompleted with a ceiling of one request more, in the
\* early return and in the fetch loop.
RECURSIVE FetchLoopOffByOne(_)
FetchLoopOffByOne(st) ==
  IF MayFetchOffByOne(st.outstanding, st.queued)
    THEN LET dependency == Head(st.queued)
         IN  FetchLoopOffByOne(FetchDependency([st EXCEPT !.queued = Tail(@)],
                                               dependency, st.cur))
    ELSE st

HandleFetchCompletedCeilingOffByOne(st) ==
  IF Cardinality(st.outstanding) > OUTSTANDING_REQUESTS_ALLOWED THEN st
  ELSE LET nextPriority == NextPriority(st.deps)
           st1 == IF MayEnqueue(st.outstanding, nextPriority, st.queued)
                    THEN Enqueue(st, nextPriority)
                    ELSE st
       IN  FetchLoopOffByOne(st1)

\* handleFetchCompleted(fetchedURL) on the scheduling state st.
HandleFetchCompleted(st) ==
  IF NoCapacity(st.outstanding) THEN st
  ELSE LET nextPriority == NextPriority(st.deps)
           st1 == IF MayEnqueue(st.outstanding, nextPriority, st.queued)
                    THEN Enqueue(st, nextPriority)
                    ELSE st
       IN  FetchLoop(st1)

\* The scheduling state read from the variables, with no message sent yet.
SchedState ==
  [deps |-> dependencies, queued |-> queuedPrefetches, cur |-> curFetchPriority,
   outstanding |-> outstandingPrefetchUrls, notified |-> <<>>, fetched |-> <<>>,
   passed |-> passed]

SetSchedState(st) ==
  /\ dependencies' = st.deps
  /\ queuedPrefetches' = st.queued
  /\ curFetchPriority' = st.cur
  /\ outstandingPrefetchUrls' = st.outstanding
  /\ fetched' = st.fetched
  /\ passed' = st.passed

\* A handler that returns nothing.
Undefined == [kind |-> "undefined"]

\* run() without the didInit_ guard: every call registers the listeners again.
RunAlways ==
  /\ listeners' = listeners + 1
  /\ didInit' = TRUE
  /\ notified' = <<>>
  /\ returned' = Undefined
  /\ threw' = FALSE
  /\ fetched' = <<>>
  /\ UNCHANGED <<dependencies, outstandingPrefetchUrls, timeTracker, requestedURLs,
                 lpUrl, navigatedToDst, queuedPrefetches, curFetchPriority,
                 initializedContentScript, passed, registered, parsedCount>>

\* run(): registers the listeners once.
Run ==
  /\ IF ~didInit
       THEN /\ listeners' = listeners + 1
            /\ didInit' = TRUE
       ELSE UNCHANGED <<listeners, didInit>>
  /\ notified' = <<>>
  /\ returned' = Undefined
  /\ threw' = FALSE
  /\ fetched' = <<>>
  /\ UNCHANGED <<dependencies, outstandingPrefetchUrls, timeTracker, requestedURLs,
                 lpUrl, navigatedToDst, queuedPrefetches, curFetchPriority,
                 initializedContentScript, passed, registered, parsedCount>>

\* onSendHeaders_ that switches navigatedToDst_ back on any other URL.
OnSendHeadersResetsNavigated(details) ==
  /\ listeners > 0
  /\ LET isPrefetch == IsPrefetchRequestHeaders(details.requestHeaders) IN
     timeTracker' = RegisterRequest(timeTracker, details.requestId,
                                    details.timeStamp, isPrefetch)
  /\ IF details.url = lpUrl
       THEN /\ notified' = <<[type |-> NAVIGATED_TO_DST, url |-> lpUrl]>>
            /\ navigatedToDst' = TRUE
       ELSE /\ notified' = <<>>
            /\ navigatedToDst' = FALSE
  /\ requestedURLs' = requestedURLs \cup {details.url}
  /\ returned' = Undefined
  /\ threw' = FALSE
  /\ fetched' = <<>>
  /\ registered' = MapSet(registered, details.requestId,
                          [requestTimestampMs |-> details.timeStamp,
                           isPrefetch |->
                             IsPrefetchRequestHeaders(details.requestHeaders),
                           requestHeaders |-> details.requestHeaders])
  /\ UNCHANGED <<dependencies, outstandingPrefetchUrls, lpUrl, queuedPrefetches,
                 curFetchPriority, didInit, initializedContentScript, listeners,
                 passed, parsedCount>>

\* onSendHeaders_ that records only the URLs of requests that are not
\* prefetches.
OnSendHeadersSkipsPrefetch(details) ==
  /\ listeners > 0
  /\ LET isPrefetch == IsPrefetchRequestHeaders(details.requestHeaders) IN
     timeTracker' = RegisterRequest(timeTracker, details.requestId,
                                    details.timeStamp, isPrefetch)
  /\ IF details.url = lpUrl
       THEN /\ notified' = <<[type |-> NAVIGATED_TO_DST, url |-> lpUrl]>>
            /\ navigatedToDst' = TRUE
       ELSE /\ notified' = <<>>
            /\ UNCHANGED navigatedToDst
  /\ requestedURLs' = IF IsPrefetchRequestHeaders(details.requestHeaders)
                        THEN requestedURLs
                        ELSE requestedURLs \cup {details.url}
  /\ returned' = Undefined
  /\ threw' = FALSE
  /\ fetched' = <<>>
  /\ registered' = MapSet(registered, details.requestId,
                          [requestTimestampMs |-> details.timeStamp,
                           isPrefetch |->
                             IsPrefetchRequestHeaders(details.requestHeaders),
                           requestHeaders |-> details.requestHeaders])
  /\ UNCHANGED <<dependencies, outstandingPrefetchUrls, lpUrl, queuedPrefetches,
                 curFetchPriority, didInit, initializedContentScript, listeners,
                 passed, parsedCount>>

\* onSendHeaders_ that does not record the landing page as requested.
OnSendHeadersSkipsLandingPage(details) ==
  /\ listeners > 0
  /\ LET isPrefetch == IsPrefetchRequestHeaders(details.requestHeaders) IN
     timeTracker' = RegisterRequest(timeTracker, details.requestId,
                                    details.timeStamp, isPrefetch)
  /\ IF details.url = lpUrl
       THEN /\ notified' = <<[type |-> NAVIGATED_TO_DST, url |-> lpUrl]>>
            /\ navigatedToDst' = TRUE
       ELSE /\ notified' = <<>>
            /\ UNCHANGED navigatedToDst
  /\ requestedURLs' = IF details.url = lpUrl THEN requestedURLs
                    ELSE requestedURLs \cup {details.url}
  /\ returned' = Undefined
  /\ threw' = FALSE
  /\ fetched' = <<>>
  /\ registered' = MapSet(registered, details.requestId,
                          [requestTimestampMs |-> details.timeStamp,
                           isPrefetch |->
                             IsPrefetchRequestHeaders(details.requestHeaders),
                           requestHeaders |-> details.requestHeaders])
  /\ UNCHANGED <<dependencies, outstandingPrefetchUrls, lpUrl, queuedPrefetches,
                 curFetchPriority, didInit, initializedContentScript, listeners,
                 passed, parsedCount>>

\* onSendHeaders_(details), details = [url, requestId, timeStamp, requestHeaders].
OnSendHeaders(details) ==
  /\ listeners > 0
  /\ LET isPrefetch == IsPrefetchRequestHeaders(details.requestHeaders) IN
     timeTracker' = RegisterRequest(timeTracker, details.requestId,
                                    details.timeStamp, isPrefetch)
  /\ IF details.url = lpUrl
       THEN /\ notified' = <<[type |-> NAVIGATED_TO_DST, url |-> lpUrl]>>
            /\ navigatedToDst' = TRUE
       ELSE /\ notified' = <<>>
            /\ UNCHANGED navigatedToDst
  /\ requestedURLs' = requestedURLs \cup {details.url}
  /\ returned' = Undefined
  /\ threw' = FALSE
  /\ fetched' = <<>>
  /\ registered' = MapSet(registered, details.requestId,
                          [requestTimestampMs |-> details.timeStamp,
                           isPrefetch |->
                             IsPrefetchRequestHeaders(details.requestHeaders),
                           requestHeaders |-> details.requestHeaders])
  /\ UNCHANGED <<dependencies, outstandingPrefetchUrls, lpUrl, queuedPrefetches,
                 curFetchPriority, didInit, initializedContentScript, listeners,
                 passed, parsedCount>>

\* The forEach of onHeadersReceived_ over the response headers still to read.
\* hs is [deps, count, threw, lpUrl].
RECURSIVE ReadResponseHeaders(_, _)
ReadResponseHeaders(hs, responseHeaders) ==
  IF responseHeaders = <<>> \/ hs.threw THEN hs
  ELSE LET element == Head(responseHeaders) IN
       IF ToLowerCase(element.name) = "x-prefetch"
         THEN LET ps == ParsePrefetchURLs(
                          [deps |-> hs.deps, count |-> hs.count, threw |-> FALSE],
                          element.value)
              IN  ReadResponseHeaders(
                    [hs EXCEPT !.deps = ps.deps, !.count = ps.count,
                               !.threw = ps.threw],
                    Tail(responseHeaders))
       ELSE IF ToLowerCase(element.name) = "x-lp-url"
         THEN ReadResponseHeaders([hs EXCEPT !.lpUrl = element.value],
                                  Tail(responseHeaders))
       ELSE ReadResponseHeaders(hs, Tail(responseHeaders))

\* onHeadersReceived_(details), details = [url, responseHeaders].
OnHeadersReceived(details) ==
  /\ listeners > 0
  /\ LET hs == ReadResponseHeaders(
                 [deps |-> dependencies, count |-> parsedCount, threw |-> FALSE,
                  lpUrl |-> lpUrl],
                 details.responseHeaders)
     IN  /\ dependencies' = hs.deps
         /\ parsedCount' = hs.count
         /\ lpUrl' = hs.lpUrl
         /\ threw' = hs.threw
         /\ returned' = IF hs.threw THEN Undefined
                        ELSE [kind |-> "object",
                              requestHeaders |-> details.responseHeaders]
  /\ notified' = <<>>
  /\ fetched' = <<>>
  /\ UNCHANGED <<outstandingPrefetchUrls, timeTracker, requestedURLs, navigatedToDst,
                 queuedPrefetches, curFetchPriority, didInit, initializedContentScript,
                 listeners, passed, registered>>

\* Mutant: the request is completed and its log sent before the refill.
OnFetchCompletedLogFirst(details) ==
  LET st0 == [SchedState EXCEPT !.outstanding = @ \ {details.url}]
      st1 == HandleFetchCompleted(st0)
      done == CompleteRequest(timeTracker, details.requestId, details.timeStamp)
      logMsg == [type |-> LOG_TIMING, url |-> details.url,
                 requestId |-> details.requestId, fetchTime |-> done.ret,
                 requestTimestampMs |-> GetRequestTime(done.tt, details.requestId),
                 completeTimestampMs |-> GetCompleteTime(done.tt, details.requestId),
                 isPrefetch |-> IsPrefetchRequest(done.tt, details.requestId)]
  IN  /\ SetSchedState(st1)
      /\ timeTracker' = done.tt
      /\ notified' = <<logMsg>> \o st1.notified
      /\ returned' = Undefined
      /\ threw' = FALSE
      /\ UNCHANGED <<requestedURLs, lpUrl, navigatedToDst, didInit,
                     initializedContentScript, listeners, registered, parsedCount>>

\* Mutant: onFetchCompleted_ that empties outstandingPrefetchUrls_.
OnFetchCompletedFreesAll(details) ==
  LET st0 == [SchedState EXCEPT !.outstanding = {}]
      st1 == HandleFetchCompleted(st0)
      done == CompleteRequest(timeTracker, details.requestId, details.timeStamp)
      fetchTime == done.ret
      logMsg == [type |-> LOG_TIMING, url |-> details.url,
                 requestId |-> details.requestId, fetchTime |-> fetchTime,
                 requestTimestampMs |-> GetRequestTime(done.tt, details.requestId),
                 completeTimestampMs |-> GetCompleteTime(done.tt, details.requestId),
                 isPrefetch |-> IsPrefetchRequest(done.tt, details.requestId)]
  IN  /\ SetSchedState(st1)
      /\ timeTracker' = done.tt
      /\ notified' = Append(st1.notified, logMsg)
      /\ returned' = Undefined
      /\ threw' = FALSE
      /\ UNCHANGED <<requestedURLs, lpUrl, navigatedToDst, didInit,
                     initializedContentScript, listeners, registered, parsedCount>>

\* Mutant: onFetchCompleted_ that deletes the url only for a request the
\* tracker knows as a prefetch.
OnFetchCompletedOwnRequestOnly(details) ==
  LET st0 == [SchedState EXCEPT !.outstanding = IF IsPrefetchRequest(timeTracker, details.requestId) = PrefetchStatus.YES
                                      THEN @ \ {details.url} ELSE @]
      st1 == HandleFetchCompleted(st0)
      done == CompleteRequest(timeTracker, details.requestId, details.timeStamp)
      fetchTime == done.ret
      logMsg == [type |-> LOG_TIMING, url |-> details.url,
                 requestId |-> details.requestId, fetchTime |-> fetchTime,
                 requestTimestampMs |-> GetRequestTime(done.tt, details.requestId),
                 completeTimestampMs |-> GetCompleteTime(done.tt, details.requestId),
                 isPrefetch |-> IsPrefetchRequest(done.tt, details.requestId)]
  IN  /\ SetSchedState(st1)
      /\ timeTracker' = done.tt
      /\ notified' = Append(st1.notified, logMsg)
      /\ returned' = Undefined
      /\ threw' = FALSE
      /\ UNCHANGED <<requestedURLs, lpUrl, navigatedToDst, didInit,
                     initializedContentScript, listeners, registered, parsedCount>>

\* onFetchCompleted_(details), details = [url, requestId, timeStamp].
OnFetchCompleted(details) ==
  LET st0 == [SchedState EXCEPT !.outstanding = @ \ {details.url}]
      st1 == HandleFetchCompleted(st0)
      done == CompleteRequest(timeTracker, details.requestId, details.timeStamp)
      fetchTime == done.ret
      logMsg == [type |-> LOG_TIMING, url |-> details.url,
                 requestId |-> details.requestId, fetchTime |-> fetchTime,
                 requestTimestampMs |-> GetRequestTime(done.tt, details.requestId),
                 completeTimestampMs |-> GetCompleteTime(done.tt, details.requestId),
                 isPrefetch |-> IsPrefetchRequest(done.tt, details.requestId)]
  IN  /\ SetSchedState(st1)
      /\ timeTracker' = done.tt
      /\ notified' = Append(st1.notified, logMsg)
      /\ returned' = Undefined
      /\ threw' = FALSE
      /\ UNCHANGED <<requestedURLs, lpUrl, navigatedToDst, didInit,
                     initializedContentScript, listeners, registered, parsedCount>>

\* onFetchSucceed_(details): the webRequest.onCompleted listener.
OnFetchSucceed(details) ==
  /\ listeners > 0
  /\ OnFetchCompleted(details)

\* onErrorOccurred_ that frees the slot and refills but neither completes
\* the request in the tracker nor logs it.
OnErrorOccurredNoLog(details) ==
  /\ listeners > 0
  /\ LET st0 == [SchedState EXCEPT !.outstanding = @ \ {details.url}]
         st1 == HandleFetchCompleted(st0)
     IN  /\ SetSchedState(st1)
         /\ notified' = st1.notified
  /\ returned' = Undefined
  /\ threw' = FALSE
  /\ UNCHANGED <<timeTracker, requestedURLs, lpUrl, navigatedToDst, didInit,
                 initializedContentScript, listeners, registered, parsedCount>>

\* onErrorOccurred_(details): the webRequest.onErrorOccurred listener.
OnErrorOccurred(details) ==
  /\ listeners > 0
  /\ OnFetchCompleted(details)

\* onContentMessage_ without the initializedContentScript_ guard: every
\* CONTENT_SCRIPT_INIT message refills.
OnContentMessageEveryInit(msg) ==
  /\ listeners > 0
  /\ IF msg.type = CONTENT_SCRIPT_INIT
       THEN LET st1 == HandleFetchCompleted(SchedState)
            IN  /\ SetSchedState(st1)
                /\ notified' = st1.notified
                /\ initializedContentScript' = TRUE
       ELSE /\ notified' = <<>>
            /\ fetched' = <<>>
            /\ UNCHANGED <<dependencies, queuedPrefetches, curFetchPriority,
                           outstandingPrefetchUrls, passed, initializedContentScript>>
  /\ returned' = Undefined
  /\ threw' = FALSE
  /\ UNCHANGED <<timeTracker, requestedURLs, lpUrl, navigatedToDst, didInit,
                 listeners, registered, parsedCount>>

\* onContentMessage_(msg): the runtime.onMessage listener.
OnContentMessage(msg) ==
  /\ listeners > 0
  /\ IF msg.type = CONTENT_SCRIPT_INIT /\ ~initializedContentScript
       THEN LET st1 == HandleFetchCompleted(SchedState)
            IN  /\ SetSchedState(st1)
                /\ notified' = st1.notified
                /\ initializedContentScript' = TRUE
       ELSE /\ notified' = <<>>
            /\ fetched' = <<>>
            /\ UNCHANGED <<dependencies, queuedPrefetches, curFetchPriority,
                           outstandingPrefetchUrls, passed, initializedContentScript>>
  /\ returned' = Undefined
  /\ threw' = FALSE
  /\ UNCHANGED <<timeTracker, requestedURLs, lpUrl, navigatedToDst, didInit,
                 listeners, registered, parsedCount>>

\* timeTracker.registerRequest(requestID, requestTimestampMs, isPrefetch),
\* called on the scheduler's public tracker.  The history also keeps
\* whether the call overwrote an entry that had been completed.
TTRegister(requestID, requestTimestampMs, isPrefetch) ==
  /\ timeTracker' = RegisterRequest(timeTracker, requestID, requestTimestampMs,
                                    isPrefetch)
  /\ registered' = MapSet(registered, requestID,
                          [requestTimestampMs |-> requestTimestampMs,
                           isPrefetch |-> isPrefetch,
                           overwrote |-> GetCompleteTime(timeTracker, requestID) # -1])
  /\ returned' = Undefined
  /\ notified' = <<>>
  /\ threw' = FALSE
  /\ fetched' = <<>>
  /\ UNCHANGED <<dependencies, outstandingPrefetchUrls, requestedURLs, lpUrl,
                 navigatedToDst, queuedPrefetches, curFetchPriority, didInit,
                 initializedContentScript, listeners, passed, parsedCount>>

\* timeTracker.completeRequest(requestID, completeTimestampMs), called on the
\* scheduler's public tracker.
TTComplete(requestID, completeTimestampMs) ==
  LET done == CompleteRequest(timeTracker, requestID, completeTimestampMs)
  IN  /\ timeTracker' = done.tt
      /\ returned' = [kind |-> "number", value |-> done.ret]
      /\ notified' = <<>>
      /\ threw' = FALSE
      /\ fetched' = <<>>
      /\ UNCHANGED <<dependencies, outstandingPrefetchUrls, requestedURLs, lpUrl,
                     navigatedToDst, queuedPrefetches, curFetchPriority, didInit,
                     initializedContentScript, listeners, passed, registered,
                     parsedCount>>

\* The state after the constructor.
Init ==
  /\ dependencies = [i \in Tiers |-> <<>>]
  /\ outstandingPrefetchUrls = {}
  /\ timeTracker = NewTimeTracker
  /\ requestedURLs = {}
  /\ lpUrl = ""
  /\ navigatedToDst = FALSE
  /\ queuedPrefetches = <<>>
  /\ curFetchPriority = -1
  /\ didInit = FALSE
  /\ initializedContentScript = FALSE
  /\ listeners = 0
  /\ notified = <<>>
  /\ returned = Undefined
  /\ threw = FALSE
  /\ fetched = <<>>
  /\ passed = <<>>
  /\ registered = <<>>
  /\ parsedCount = 0


\* ------------------------------------------------------------------------
\* The environment: the events chrome delivers, drawn from given sets
\* ------------------------------------------------------------------------
UrlsUpTo(n) == {UrlName[i] : i \in 1 .. n}

\* Request headers of a real request and of the request a prefetch causes.
RealHeaders == <<>>
PurposeHeaders ==
  <<[name |-> "Accept", value |-> "x"], [name |-> "Purpose", value |-> "Prefetch"]>>

HintEntry(u, p) == [url |-> u, priority |-> p, type |-> "script"]

HintEntries(urls, priorityTexts) ==
  {HintEntry(u, p) : u \in urls, p \in priorityTexts}

\* x-prefetch values of one entry, and of two.
HintValues(entries) ==
  {<<e>> : e \in entries} \cup {<<e1, e2>> : e1 \in entries, e2 \in entries}

HintHeaders(values) == {[name |-> "x-prefetch", value |-> v] : v \in values}

LpHeaders(urls) == {[name |-> "x-lp-url", value |-> u] : u \in urls}

\* The number of hint entries a list of response headers holds.
RECURSIVE EntryCount(_)
EntryCount(responseHeaders) ==
  IF responseHeaders = <<>> THEN 0
  ELSE (IF ToLowerCase(Head(responseHeaders).name) = "x-prefetch"
          THEN Len(Head(responseHeaders).value) ELSE 0)
       + EntryCount(Tail(responseHeaders))

SendDetails(urls, ids, times, headerLists) ==
  [url : urls, requestId : ids, timeStamp : times, requestHeaders : headerLists]

DoneDetails(urls, ids, times) ==
  [url : urls, requestId : ids, timeStamp : times]

ContentMessages == {[type |-> CONTENT_SCRIPT_INIT], [type |-> COMPLETED]}

SendHeadersOf(urls, ids, times, headerLists) ==
  \E d \in SendDetails(urls, ids, times, headerLists) : OnSendHeaders(d)

HeadersReceivedOf(headerLists, maxParsed) ==
  \E hl \in headerLists :
    /\ parsedCount + EntryCount(hl) <= maxParsed
    /\ OnHeadersReceived([url |-> "u1", responseHeaders |-> hl])

FetchSucceedOf(urls, ids, times) ==
  \E d \in DoneDetails(urls, ids, times) : OnFetchSucceed(d)

ErrorOccurredOf(urls, ids, times) ==
  \E d \in DoneDetails(urls, ids, times) : OnErrorOccurred(d)

ContentMessage == \E m \in ContentMessages : OnContentMessage(m)

\* ------------------------------------------------------------------------
\* The general specification: any sequence of the events over two URLs,
\* with hints of one or two entries for the tiers 2 and 3; u1 may be named
\* the landing page.
\* ------------------------------------------------------------------------
Urls == {"u1", "u2"}
RequestIds == {"r1"}
Times == {1}

PriorityTexts == {<<"2">>, <<"3">>}

ResponseHeaderLists ==
  {<<h>> : h \in HintHeaders(HintValues(HintEntries(Urls, PriorityTexts)))}
    \cup {<<h>> : h \in LpHeaders({"u1"})}

SendHeaders == SendHeadersOf(Urls, RequestIds, Times, {RealHeaders, PurposeHeaders})

HeadersReceived == HeadersReceivedOf(ResponseHeaderLists, MaxParsed)

FetchSucceed == FetchSucceedOf(Urls, RequestIds, Times)

ErrorOccurred == ErrorOccurredOf(Urls, RequestIds, Times)

Next ==
  \/ Run
  \/ SendHeaders
  \/ HeadersReceived
  \/ FetchSucceed
  \/ ErrorOccurred
  \/ ContentMessage

Spec == Init /\ [][Next]_vars

\* ------------------------------------------------------------------------
\* The capacity specification: one hint puts CapUrls resources in tier 0,
\* either of distinct URLs or all of u1, and another hint one more resource
\* in tier 0 or in tier 1; the browser requests u1 itself.
\* ------------------------------------------------------------------------
CapAllUrls == UrlsUpTo(CapUrls)

CapHintValues ==
  {[i \in 1 .. CapUrls |-> HintEntry(UrlName[i], <<"0">>)],
   [i \in 1 .. CapUrls |-> HintEntry("u1", <<"0">>)],
   <<HintEntry("u2", <<"0">>)>>,
   <<HintEntry("u2", <<"1">>)>>}

CapSendHeaders == SendHeadersOf({"u1"}, RequestIds, Times, {RealHeaders})

\* At most one hint of CapUrls entries and one of a single entry, in either order.
CapHeadersReceived ==
  \E v \in CapHintValues :
    /\ parsedCount = 0 \/ parsedCount + Len(v) = CapUrls + 1
    /\ OnHeadersReceived([url |-> "u1",
                          responseHeaders |-> <<[name |-> "x-prefetch", value |-> v]>>])

CapFetchSucceed == FetchSucceedOf(CapAllUrls, RequestIds, Times)

CapErrorOccurred == ErrorOccurredOf(CapAllUrls, RequestIds, Times)

NextCap ==
  \/ Run
  \/ CapSendHeaders
  \/ CapHeadersReceived
  \/ CapFetchSucceed
  \/ CapErrorOccurred
  \/ ContentMessage

SpecCap == Init /\ [][NextCap]_vars

\* ------------------------------------------------------------------------
\* The parsing specification: hints of one or two entries for u1 whose
\* priority texts lie inside, at the ends of and on both sides outside of
\* the range of tiers; the content script starts and u1 completes.
\* ------------------------------------------------------------------------
ParsePriorityTexts ==
  {<<"0">>, <<"9", "9">>, <<"1", "0", "0">>, <<"1", "5", "0">>, <<"-", "1">>}

ParseHintValues == HintValues(HintEntries({"u1"}, ParsePriorityTexts))

ParseHeaderLists == {<<h>> : h \in HintHeaders(ParseHintValues)}

ParseHeadersReceived == HeadersReceivedOf(ParseHeaderLists, ParseParsed)

ParseFetchSucceed == FetchSucceedOf({"u1"}, RequestIds, Times)

NextParse ==
  \/ Run
  \/ ParseHeadersReceived
  \/ ParseFetchSucceed
  \/ ContentMessage

SpecParse == Init /\ [][NextParse]_vars

\* ------------------------------------------------------------------------
\* The navigation specification: any sequence of the events over two URLs,
\* either of which an x-lp-url header may name the landing page, with hints
\* of one entry for the tiers 2 and 3.
\* ------------------------------------------------------------------------
NavResponseHeaderLists ==
  {<<h>> : h \in HintHeaders({<<e>> : e \in HintEntries(Urls, PriorityTexts)})}
    \cup {<<h>> : h \in LpHeaders(Urls)}

NavHeadersReceived == HeadersReceivedOf(NavResponseHeaderLists, NavParsed)

NextNav ==
  \/ Run
  \/ SendHeaders
  \/ NavHeadersReceived
  \/ FetchSucceed
  \/ ErrorOccurred
  \/ ContentMessage

SpecNav == Init /\ [][NextNav]_vars

\* ------------------------------------------------------------------------
\* The TimeTracker specification: registerRequest and completeRequest
\* called in any order on two request ids with timestamps 0 .. TTMaxTime.
\* ------------------------------------------------------------------------
TTIds == {"r1", "r2"}

TTTimes == 0 .. TTMaxTime

TTRegisterRequest ==
  \E id \in TTIds, t \in TTTimes, b \in BOOLEAN : TTRegister(id, t, b)

TTCompleteRequest ==
  \E id \in TTIds, t \in TTTimes : TTComplete(id, t)

NextTT ==
  \/ TTRegisterRequest
  \/ TTCompleteRequest

SpecTT == Init /\ [][NextTT]_vars

\* ------------------------------------------------------------------------
\* The progress specification: the browser requests URLs and hints of one
\* or two entries for the tiers 2 and 3 arrive, then the content script
\* starts; from then on the only events are the completed and errored
\* events of the URLs in flight, and each of them arrives in the end.
\* ------------------------------------------------------------------------
LiveRun == ~initializedContentScript /\ Run

LiveSendHeaders == ~initializedContentScript /\ SendHeaders

LiveHeadersReceived ==
  /\ ~initializedContentScript
  /\ HeadersReceivedOf(
       {<<h>> : h \in HintHeaders(HintValues(HintEntries(Urls, PriorityTexts)))},
       LiveParsed)

LiveAgentReady ==
  /\ ~initializedContentScript
  /\ OnContentMessage([type |-> CONTENT_SCRIPT_INIT])

LiveFetchSucceed ==
  /\ initializedContentScript
  /\ \E d \in DoneDetails(outstandingPrefetchUrls, RequestIds, Times) :
       OnFetchSucceed(d)

LiveErrorOccurred ==
  /\ initializedContentScript
  /\ \E d \in DoneDetails(outstandingPrefetchUrls, RequestIds, Times) :
       OnErrorOccurred(d)

LiveCompletion == LiveFetchSucceed \/ LiveErrorOccurred

NextLive ==
  \/ LiveRun
  \/ LiveSendHeaders
  \/ LiveHeadersReceived
  \/ LiveAgentReady
  \/ LiveFetchSucceed
  \/ LiveErrorOccurred

SpecLive == Init /\ [][NextLive]_vars /\ WF_vars(LiveCompletion)

\* ------------------------------------------------------------------------
\* Definitions the properties share
\* ------------------------------------------------------------------------
Range(f) == {f[i] : i \in DOMAIN f}

IsDirective(msg) == msg.type \in {PREFETCH_RESOURCE, PRELOAD_RESOURCE}

\* The resources waiting in a tier or in the queue.
Pending(deps, queued) == UNION {Range(deps[t]) : t \in Tiers} \cup Range(queued)

\* A step of a completed or errored event with these details.
CompletionStep(d) == OnFetchSucceed(d) \/ OnErrorOccurred(d)

\* A step of the first CONTENT_SCRIPT_INIT message.
AgentReadyStep ==
  /\ ~initializedContentScript
  /\ OnContentMessage([type |-> CONTENT_SCRIPT_INIT])

AllDoneDetails == DoneDetails(UrlsUpTo(CapUrls), RequestIds, Times)

\* A refill pass runs in this step and finds nothing in flight once the
\* URL of the event, if any, is deleted.
RefillOnEmptyStep ==
  \/ outstandingPrefetchUrls = {} /\ AgentReadyStep
  \/ \E d \in AllDoneDetails :
       outstandingPrefetchUrls \subseteq {d.url} /\ CompletionStep(d)

\* A step that takes resources from a tier into the queue, from where the
\* fetch loop may already have popped them.
DrainStep ==
  /\ queuedPrefetches' # queuedPrefetches \/ fetched' # <<>>
  /\ dependencies' # dependencies

\* The tiers a step takes resources from.
DrainedTiers == {t \in Tiers : Len(dependencies'[t]) < Len(dependencies[t])}

\* ------------------------------------------------------------------------
\* C1  Admission invariant: in every reachable state the number of URLs in
\* outstandingPrefetchUrls_ is at most OUTSTANDING_REQUESTS_ALLOWED.
\* ------------------------------------------------------------------------
C1_AdmissionInvariant ==
  Cardinality(outstandingPrefetchUrls) <= OUTSTANDING_REQUESTS_ALLOWED

\* The ceiling is reached while a resource still waits in the queue.
C1_CeilingReached ==
  /\ Cardinality(outstandingPrefetchUrls) = OUTSTANDING_REQUESTS_ALLOWED
  /\ queuedPrefetches # <<>>

\* ------------------------------------------------------------------------
\* C2  Priority ordering.  As stated: whenever tiers p1 < p2 are both
\* non-empty, every resource in p1 is added to outstandingPrefetchUrls_
\* before any resource of p2 is drained into queuedPrefetches_.  A resource
\* parsed into p1 while p2 holds an earlier one was in p1 with p2 non-empty,
\* so when p2 is drained it must no longer wait and must not have been
\* refused as late.
\* ------------------------------------------------------------------------
C2_AllAddedBeforeDrain ==
  [][DrainStep =>
       LET pending == Pending(dependencies, queuedPrefetches) IN
       \A p2 \in DrainedTiers : \A s \in Range(dependencies[p2]) :
         /\ \A r \in pending : ~(r.tier < p2 /\ r.seq > s.seq)
         /\ \A i \in DOMAIN passed :
              (passed[i].tier < p2 /\ passed[i].seq > s.seq)
                => passed[i].outcome # "late"]_vars

\* C2 as amended: whenever tiers p1 < p2 are both non-empty, every resource
\* in p1 is passed to fetchDependency, which adds its URL to
\* outstandingPrefetchUrls_ or refuses it as late because the URL is in
\* requestedURLs_, before any resource of p2 is drained into
\* queuedPrefetches_.  In a step that drains p2 no resource of a lower tier
\* waits in a tier or in the queue, every resource parsed so far waits or
\* has been passed, and every call of fetchDependency ends in one of the two
\* outcomes.
C2_LowerTiersPassedFirst ==
  [][/\ DrainStep =>
          LET pending == Pending(dependencies, queuedPrefetches) IN
          \A p2 \in DrainedTiers :
            /\ \A r \in pending : r.tier >= p2
            /\ \A k \in 1 .. parsedCount :
                 \/ \E i \in DOMAIN passed : passed[i].seq = k
                 \/ \E r \in pending : r.seq = k
     /\ \A i \in DOMAIN fetched' :
          IF fetched'[i].resource.url \in requestedURLs
            THEN fetched'[i].outcome = "late"
            ELSE /\ IsDirective([type |-> fetched'[i].outcome])
                 /\ fetched'[i].resource.url \in outstandingPrefetchUrls']_vars

\* A resource of a higher tier has been dispatched after a resource parsed
\* later into a lower tier was refused as late.
C2_HigherTierAfterLate ==
  \E i, j \in DOMAIN passed :
    /\ i < j
    /\ passed[i].tier < passed[j].tier
    /\ passed[i].seq > passed[j].seq
    /\ passed[i].outcome = "late"
    /\ passed[j].outcome # "late"

\* ------------------------------------------------------------------------
\* C3  FIFO within tier: of two resources parsed into the same tier, from
\* one hint header or from two, the one parsed first is passed to
\* fetchDependency first, whatever the number of refill passes between.
\* ------------------------------------------------------------------------
C3_FifoWithinTier ==
  /\ \A i, j \in DOMAIN passed :
       (i < j /\ passed[i].tier = passed[j].tier) => passed[i].seq < passed[j].seq
  /\ \A i \in DOMAIN passed : \A r \in Pending(dependencies, queuedPrefetches) :
       r.tier = passed[i].tier => passed[i].seq < r.seq

\* More resources of one tier than two refill passes can dispatch, parsed
\* from two hint headers, have all been passed.
C3_TierPassedOverPasses ==
  /\ Len(passed) > OUTSTANDING_REQUESTS_ALLOWED + 1
  /\ \A i \in DOMAIN passed : passed[i].tier = 0

\* ------------------------------------------------------------------------
\* C4  Wave policy: a tier is drained into queuedPrefetches_ only by a
\* refill pass that finds outstandingPrefetchUrls_ and queuedPrefetches_
\* empty; it is the lowest non-empty tier and it is drained in full, its
\* first resources are the ones the pass dispatches, and every other tier is
\* left as it was, however few requests are outstanding.
\* ------------------------------------------------------------------------
C4_WavePolicy ==
  [][DrainStep =>
       \A t \in DrainedTiers :
         /\ queuedPrefetches = <<>>
         /\ RefillOnEmptyStep
         /\ t = NextPriority(dependencies)
         /\ dependencies' = [dependencies EXCEPT ![t] = <<>>]
         /\ Len(fetched') <= Len(dependencies[t])
         /\ \A i \in DOMAIN fetched' : fetched'[i].resource = dependencies[t][i]
         /\ queuedPrefetches' =
              SubSeq(dependencies[t], Len(fetched') + 1, Len(dependencies[t]))]_vars

\* A completion has left fewer than 7 requests outstanding and nothing
\* queued, and the next tier still waits untouched.
C4_NextTierWaits ==
  /\ outstandingPrefetchUrls # {}
  /\ Cardinality(outstandingPrefetchUrls) < OUTSTANDING_REQUESTS_ALLOWED
  /\ queuedPrefetches = <<>>
  /\ fetched = <<>>
  /\ notified # <<>>
  /\ notified[Len(notified)].type = LOG_TIMING
  /\ NextPriority(dependencies) # -1
  /\ \E i \in DOMAIN passed : passed[i].tier < NextPriority(dependencies)

\* ------------------------------------------------------------------------
\* C5  With n > 7 resources of distinct, not yet requested URLs in one tier
\* and nothing in flight, the first refill pass dispatches exactly the first
\* 7 in arrival order and leaves the other n - 7 in queuedPrefetches_; while
\* 7 are outstanding and a resource waits, a resource is dispatched only in
\* the step of a completed or errored event for an outstanding URL.
\* ------------------------------------------------------------------------
\* Tier t is the first non-empty one and holds more than 7 resources of
\* distinct URLs, none requested yet; nothing is queued.
C5_FullTier(t) ==
  /\ queuedPrefetches = <<>>
  /\ Cardinality(outstandingPrefetchUrls) <= 1
  /\ t # -1
  /\ Len(dependencies[t]) > OUTSTANDING_REQUESTS_ALLOWED
  /\ \A i, j \in 1 .. Len(dependencies[t]) :
       i # j => dependencies[t][i].url # dependencies[t][j].url
  /\ \A i \in 1 .. Len(dependencies[t]) : dependencies[t][i].url \notin requestedURLs

C5_FirstRefill(t) ==
  LET n == Len(dependencies[t])
      first == SubSeq(dependencies[t], 1, OUTSTANDING_REQUESTS_ALLOWED)
      directives == SelectSeq(notified', IsDirective)
  IN  /\ Len(fetched') = OUTSTANDING_REQUESTS_ALLOWED
      /\ \A i \in 1 .. OUTSTANDING_REQUESTS_ALLOWED : fetched'[i].resource = first[i]
      /\ Len(directives) = OUTSTANDING_REQUESTS_ALLOWED
      /\ \A i \in 1 .. OUTSTANDING_REQUESTS_ALLOWED : directives[i].url = first[i].url
      /\ outstandingPrefetchUrls' = {first[i].url : i \in 1 .. OUTSTANDING_REQUESTS_ALLOWED}
      /\ queuedPrefetches' = SubSeq(dependencies[t], OUTSTANDING_REQUESTS_ALLOWED + 1, n)
      /\ dependencies'[t] = <<>>

C5_EighthWaits ==
  (/\ Cardinality(outstandingPrefetchUrls) = OUTSTANDING_REQUESTS_ALLOWED
   /\ queuedPrefetches # <<>>
   /\ fetched' # <<>>)
    => \E d \in AllDoneDetails :
         d.url \in outstandingPrefetchUrls /\ CompletionStep(d)

C5_SevenThenWait ==
  [][/\ LET t == NextPriority(dependencies)
        IN  (C5_FullTier(t) /\ RefillOnEmptyStep) => C5_FirstRefill(t)
     /\ C5_EighthWaits]_vars

\* The 8th resource of the tier has just been dispatched by a completion, and
\* the ceiling is reached again.
C5_EighthDispatched ==
  /\ Len(fetched) = 1
  /\ fetched[1].resource.seq = OUTSTANDING_REQUESTS_ALLOWED + 1
  /\ fetched[1].outcome = PREFETCH_RESOURCE
  /\ fetched[1].resource.url \in outstandingPrefetchUrls
  /\ Cardinality(outstandingPrefetchUrls) = OUTSTANDING_REQUESTS_ALLOWED
  /\ Len(notified) = 2
  /\ notified[2].type = LOG_TIMING

\* ------------------------------------------------------------------------
\* C6  Dedup against real requests: when the URL of a resource is in
\* requestedURLs_ as the refill pass pops it, no PREFETCH or PRELOAD
\* directive is sent for that URL, the URL is not added to
\* outstandingPrefetchUrls_, and one LOG_TIMING message is sent for the
\* resource, which the content script classifies LATE_PREFETCH, with empty
\* request id and fetch time, request time and complete time all -1.
\* ------------------------------------------------------------------------
C6_LateLog(url) ==
  [url |-> url, requestId |-> "", fetchTime |-> -1, requestTimestampMs |-> -1,
   completeTimestampMs |-> -1, classification |-> "LATE_PREFETCH"]

C6_IsLateLogFor(msg, url) ==
  /\ msg.type = LOG_TIMING
  /\ HandleLogTiming(msg) = C6_LateLog(url)

C6_LateSuppressed ==
  [][\A i \in DOMAIN fetched' :
       LET url == fetched'[i].resource.url IN
       url \in requestedURLs =>
         /\ i \in DOMAIN notified'
         /\ C6_IsLateLogFor(notified'[i], url)
         /\ \A k \in DOMAIN notified' :
              ~(IsDirective(notified'[k]) /\ notified'[k].url = url)
         /\ url \in outstandingPrefetchUrls' => url \in outstandingPrefetchUrls
         /\ Cardinality({k \in DOMAIN notified' : C6_IsLateLogFor(notified'[k], url)})
              = Cardinality({j \in DOMAIN fetched' : fetched'[j].resource.url = url})]_vars

\* A popped resource whose URL the browser had requested was refused: the
\* late log is the message sent for it and its URL is not outstanding.
C6_LateLogged ==
  \E i \in DOMAIN fetched :
    /\ fetched[i].resource.url \in requestedURLs
    /\ fetched[i].resource.url \notin outstandingPrefetchUrls
    /\ C6_IsLateLogFor(notified[i], fetched[i].resource.url)

\* ------------------------------------------------------------------------
\* C7  Navigation gating: navigatedToDst_ is set exactly by an
\* onSendHeaders_ event whose url equals lpUrl and never reset; a directive
\* sent while it is unset is PREFETCH; once it is set, a directive for a
\* resource of tier 0, 1 or 2 is PRELOAD and one for a resource of tier 3
\* or more is PREFETCH.
\* ------------------------------------------------------------------------
C7_LandingPageRequested ==
  \E d \in SendDetails(Urls, RequestIds, Times, {RealHeaders, PurposeHeaders}) :
    d.url = lpUrl /\ OnSendHeaders(d)

C7_NavigationGating ==
  [][/\ navigatedToDst' = (navigatedToDst \/ C7_LandingPageRequested)
     /\ \A i \in DOMAIN fetched' :
          fetched'[i].outcome # "late" =>
            /\ notified'[i].url = fetched'[i].resource.url
            /\ notified'[i].type =
                 IF navigatedToDst /\ fetched'[i].resource.tier \in {0, 1, 2}
                   THEN PRELOAD_RESOURCE ELSE PREFETCH_RESOURCE]_vars

\* After the landing page was requested, a resource of tier 2 has been
\* dispatched with a PRELOAD directive.
C7_PreloadAfterNavigation ==
  /\ navigatedToDst
  /\ \E i \in DOMAIN fetched :
       /\ fetched[i].resource.tier = MAX_MAIN_FRAME_PRIORITY
       /\ notified[i].type = PRELOAD_RESOURCE
       /\ notified[i].url = fetched[i].resource.url

\* ------------------------------------------------------------------------
\* C8  Clamping: the parser appends each resource it stores to exactly one
\* tier, the tier min(priority, NUM_PRIORITIES - 1), so that a priority of
\* 100 or more lands in tier 99, and it changes no other tier.  (An entry
\* the parser cannot store, and what follows it, is the matter of C9.)
\* ------------------------------------------------------------------------
\* The tier the claim names for a parsed priority.
C8_Tier(priority) == IF priority >= 100 THEN 99 ELSE priority

\* The places of tier u that hold the resource parsed as number n.
C8_Places(deps, u, n) == {j \in DOMAIN deps[u] : deps[u][j].seq = n}

C8_Stored(v) ==
  LET k == parsedCount' - parsedCount
      tierOf(i) == C8_Tier(ParseInt(v[i].priority))
  IN  /\ k \in 0 .. Len(v)
      /\ k < Len(v) => (threw' /\ ParseInt(v[k + 1].priority) < 0)
      /\ \A i \in 1 .. k : \A u \in Tiers :
           /\ Cardinality(C8_Places(dependencies', u, parsedCount + i))
                = IF u = tierOf(i) THEN 1 ELSE 0
           /\ \A j \in C8_Places(dependencies', u, parsedCount + i) :
                dependencies'[u][j].url = v[i].url
      /\ \A u \in Tiers :
           /\ Len(dependencies'[u])
                = Len(dependencies[u]) + Cardinality({i \in 1 .. k : tierOf(i) = u})
           /\ SubSeq(dependencies'[u], 1, Len(dependencies[u])) = dependencies[u]

C9_Clamp(priority) ==
  IF priority < 0 THEN 0
  ELSE IF priority > NUM_PRIORITIES - 1 THEN NUM_PRIORITIES - 1 ELSE priority

C9_ParseTotal ==
  [][\A hl \in ParseHeaderLists :
       OnHeadersReceived([url |-> "u1", responseHeaders |-> hl]) =>
         LET v == hl[1].value IN
         /\ ~threw'
         /\ returned' # Undefined
         /\ parsedCount' = parsedCount + Len(v)
         /\ \A i \in 1 .. Len(v) :
              C8_Places(dependencies', C9_Clamp(ParseInt(v[i].priority)),
                        parsedCount + i) # {}]_vars

\* ------------------------------------------------------------------------
\* C10  Timing correctness: for a request id registered with
\* registerRequest(id, t0, _), completeRequest(id, t1) returns t1 - t0 and
\* records t1, so that getCompleteTime(id) = t1 and getRequestTime(id) = t0
\* afterwards; the other request ids keep their times.
\* ------------------------------------------------------------------------
C10_TimingCorrect ==
  [][\A id \in TTIds, t1 \in TTTimes :
       (id \in DOMAIN registered /\ TTComplete(id, t1)) =>
         LET t0 == registered[id].requestTimestampMs
         IN  /\ returned' = [kind |-> "number", value |-> t1 - t0]
             /\ GetCompleteTime(timeTracker', id) = t1
             /\ GetRequestTime(timeTracker', id) = t0
             /\ \A other \in TTIds \ {id} :
                  /\ GetCompleteTime(timeTracker', other)
                       = GetCompleteTime(timeTracker, other)
                  /\ GetRequestTime(timeTracker', other)
                       = GetRequestTime(timeTracker, other)]_vars

\* A request registered at time 0 has been completed at time TTMaxTime and
\* the call returned the difference.
C10_CompletedLater ==
  /\ returned = [kind |-> "number", value |-> TTMaxTime]
  /\ \E id \in DOMAIN registered :
       /\ registered[id].requestTimestampMs = 0
       /\ GetRequestTime(timeTracker, id) = 0
       /\ GetCompleteTime(timeTracker, id) = TTMaxTime

\* ------------------------------------------------------------------------
\* C11  completeRequest on an id that was never registered returns -1 and
\* leaves the tracker as it was: afterwards getRequestTime(id) = -1,
\* getCompleteTime(id) = -1, isPrefetchRequest(id) = UNKNOWN, and no other
\* id's entry has changed.
\* ------------------------------------------------------------------------
C11_UnregisteredComplete ==
  [][\A id \in TTIds, t \in TTTimes :
       (id \notin DOMAIN registered /\ TTComplete(id, t)) =>
         /\ returned' = [kind |-> "number", value |-> -1]
         /\ timeTracker' = timeTracker
         /\ GetRequestTime(timeTracker', id) = -1
         /\ GetCompleteTime(timeTracker', id) = -1
         /\ IsPrefetchRequest(timeTracker', id) = "unknown"
         /\ \A other \in TTIds \ {id} :
              /\ GetRequestTime(timeTracker', other)
                   = GetRequestTime(timeTracker, other)
              /\ GetCompleteTime(timeTracker', other)
                   = GetCompleteTime(timeTracker, other)
              /\ IsPrefetchRequest(timeTracker', other)
                   = IsPrefetchRequest(timeTracker, other)]_vars

\* The latest call returned -1 although every registered id was completed
\* no earlier than it was requested: the call was for an id never
\* registered, and there is an entry of another id it left alone.
C11_UnknownIdCompleted ==
  /\ returned = [kind |-> "number", value |-> -1]
  /\ DOMAIN registered # {}
  /\ TTIds \ DOMAIN registered # {}
  /\ \A id \in TTIds \ DOMAIN registered :
       GetRequestTime(timeTracker, id) = -1 /\ GetCompleteTime(timeTracker, id) = -1
  /\ \A id \in DOMAIN registered :
       GetCompleteTime(timeTracker, id) >= GetRequestTime(timeTracker, id)

\* ------------------------------------------------------------------------
\* C18  registerRequest on an id that already has an entry overwrites it
\* without error: the request time and the prefetch flag take the new
\* values and the complete time is reset to -1, even if the earlier entry
\* had been completed; the entries of other ids stay.
\* ------------------------------------------------------------------------
C18_ReRegisterOverwrites ==
  [][\A id \in TTIds, t \in TTTimes, b \in BOOLEAN :
       (id \in DOMAIN registered /\ TTRegister(id, t, b)) =>
         /\ ~threw'
         /\ GetRequestTime(timeTracker', id) = t
         /\ GetCompleteTime(timeTracker', id) = -1
         /\ IsPrefetchRequest(timeTracker', id) = IF b THEN "yes" ELSE "no"
         /\ \A other \in TTIds \ {id} :
              /\ GetRequestTime(timeTracker', other)
                   = GetRequestTime(timeTracker, other)
              /\ GetCompleteTime(timeTracker', other)
                   = GetCompleteTime(timeTracker, other)]_vars

\* An id whose entry had been completed has been registered again and its
\* complete time is -1 again.
C18_ReRegisteredAfterComplete ==
  /\ returned = Undefined
  /\ \E id \in DOMAIN registered :
       /\ registered[id].overwrote
       /\ GetCompleteTime(timeTracker, id) = -1
       /\ GetRequestTime(timeTracker, id) = registered[id].requestTimestampMs

\* ------------------------------------------------------------------------
\* The log of a completed or errored request among the messages of the
\* latest handler: a LOG_TIMING message that carries a request id (the log
\* fetchDependency sends for a refused resource carries the empty id).
\* ------------------------------------------------------------------------
IsCompletionLog(msg) == msg.type = LOG_TIMING /\ msg.requestId # ""

CompletionLogs == {j \in DOMAIN notified : IsCompletionLog(notified[j])}

\* ------------------------------------------------------------------------
\* C12  Completion-path ordering.  As stated: on a completed or errored
\* event the LOG_TIMING message of the request is sent before the refill
\* pass runs, so before every directive the same event dispatches.
\* ------------------------------------------------------------------------
C12_LogBeforeDirectives ==
  \A j \in CompletionLogs : \A i \in DOMAIN notified :
    IsDirective(notified[i]) => j < i

\* C12 as amended: on a completed or errored event the scheduler first
\* removes the url from outstandingPrefetchUrls_, then runs the refill pass,
\* and only then computes the elapsed time and sends the LOG_TIMING message
\* of the request; so that message is the last of the event, after one
\* message for each resource the refill pass popped, and the url of the
\* event is outstanding afterwards only if the pass dispatched it again.
C12_RefillBeforeLog ==
  \A j \in CompletionLogs :
    LET log == notified[j] IN
    /\ j = Len(notified)
    /\ Len(fetched) = j - 1
    /\ \A i \in 1 .. (j - 1) :
         /\ notified[i].url = fetched[i].resource.url
         /\ IsDirective(notified[i])
              \/ (notified[i].type = LOG_TIMING /\ notified[i].isPrefetch = "late")
    /\ log.url \in outstandingPrefetchUrls =>
         \E i \in DOMAIN fetched :
           fetched[i].resource.url = log.url /\ fetched[i].outcome # "late"
    /\ log.requestId \in DOMAIN registered =>
         /\ log.requestTimestampMs = registered[log.requestId].requestTimestampMs
         /\ log.fetchTime = log.completeTimestampMs - log.requestTimestampMs
         /\ GetCompleteTime(timeTracker, log.requestId) = log.completeTimestampMs

\* A completed or errored event has dispatched a resource, and the log of
\* its request follows the directive.
C12_DirectiveThenLog ==
  \E j \in CompletionLogs : \E i \in 1 .. (j - 1) : IsDirective(notified[i])

\* ------------------------------------------------------------------------
\* C14  A completed or errored event whose request id was never registered
\* does not fail: its LOG_TIMING message has fetch time, request time and
\* complete time -1 and is classified UNKNOWN, the tracker gets no entry
\* for the id, the url is removed from outstandingPrefetchUrls_ and the
\* refill pass has run: nothing it could pop is left in the queue, and
\* no tier it could drain is left non-empty.
\* ------------------------------------------------------------------------
C14_UnknownIdDegrades ==
  \A j \in CompletionLogs :
    LET log == notified[j] IN
    log.requestId \notin DOMAIN registered =>
      /\ ~threw
      /\ HandleLogTiming(log)
           = [url |-> log.url, requestId |-> log.requestId, fetchTime |-> -1,
              requestTimestampMs |-> -1, completeTimestampMs |-> -1,
              classification |-> "UNKNOWN"]
      /\ log.requestId \notin DOMAIN timeTracker.requestTimes
      /\ log.requestId \notin DOMAIN timeTracker.completeTimes
      /\ log.requestId \notin DOMAIN timeTracker.prefetched
      /\ log.url \in outstandingPrefetchUrls =>
           \E i \in DOMAIN fetched :
             fetched[i].resource.url = log.url /\ fetched[i].outcome # "late"
      /\ queuedPrefetches = <<>>
           \/ Cardinality(outstandingPrefetchUrls) >= OUTSTANDING_REQUESTS_ALLOWED
      /\ (fetched = <<>> /\ outstandingPrefetchUrls = {})
           => NextPriority(dependencies) = -1

\* An event with an unregistered request id has been logged UNKNOWN, has
\* freed the slot of its url and its refill pass has dispatched a resource.
C14_UnknownIdRefilled ==
  \E j \in CompletionLogs :
    /\ notified[j].requestId \notin DOMAIN registered
    /\ HandleLogTiming(notified[j]).classification = "UNKNOWN"
    /\ notified[j].url \notin outstandingPrefetchUrls
    /\ \E i \in DOMAIN fetched : IsDirective([type |-> fetched[i].outcome])

\* ------------------------------------------------------------------------
\* C19  Classification on completion follows the flag of the request's
\* latest onSendHeaders_ event: the LOG_TIMING message is classified
\* PREFETCH when the headers of that event held a Purpose: prefetch pair,
\* in whatever case, ACTUAL when they did not, and UNKNOWN only when the id
\* was never registered; it is never classified LATE_PREFETCH.
\* ------------------------------------------------------------------------
C19_PurposePrefetch(requestHeaders) ==
  \E i \in DOMAIN requestHeaders :
    /\ requestHeaders[i].name \in {"purpose", "Purpose", "PURPOSE"}
    /\ requestHeaders[i].value \in {"prefetch", "Prefetch", "PREFETCH"}

C19_Classified ==
  \A j \in CompletionLogs :
    LET log == notified[j] IN
    HandleLogTiming(log).classification =
      IF log.requestId \notin DOMAIN registered THEN "UNKNOWN"
      ELSE IF C19_PurposePrefetch(registered[log.requestId].requestHeaders)
        THEN "PREFETCH" ELSE "ACTUAL"

\* A request sent with Purpose: Prefetch has completed and is logged PREFETCH.
C19_PrefetchLogged ==
  \E j \in CompletionLogs :
    /\ notified[j].requestId \in DOMAIN registered
    /\ registered[notified[j].requestId].requestHeaders = PurposeHeaders
    /\ HandleLogTiming(notified[j]).classification = "PREFETCH"

\* The scheduler's own fields, without the record of the latest handler.
SchedulerFields ==
  <<dependencies, outstandingPrefetchUrls, timeTracker, requestedURLs, lpUrl,
    navigatedToDst, queuedPrefetches, curFetchPriority, didInit,
    initializedContentScript, listeners>>

NavSendDetails == SendDetails(Urls, RequestIds, Times, {RealHeaders, PurposeHeaders})

NavDoneDetails == DoneDetails(Urls, RequestIds, Times)

C15_RunIdempotent ==
  /\ ~didInit /\ listeners = 0
  /\ [][/\ listeners' = (IF didInit' THEN 1 ELSE 0)
        /\ didInit => didInit'
        /\ (Run /\ ~didInit) => (didInit' /\ listeners' = 1)
        /\ (Run /\ didInit) => UNCHANGED SchedulerFields]_vars

\* run() has been called while events were being handled: a resource is in
\* flight, the latest handler sent nothing and one listener is registered.
C15_RunWhileRunning ==
  /\ didInit /\ listeners = 1
  /\ outstandingPrefetchUrls # {}
  /\ requestedURLs # {}
  /\ initializedContentScript
  /\ notified = <<>> /\ fetched = <<>>

\* ------------------------------------------------------------------------
\* C16  The first CONTENT_SCRIPT_INIT message runs one refill pass: with
\* nothing in flight or queued it drains the lowest non-empty tier and
\* dispatches from it.  Every later CONTENT_SCRIPT_INIT message runs none
\* and changes no field of the scheduler, and the flag is never cleared.
\* ------------------------------------------------------------------------
C16_AgentReadyOnce ==
  [][/\ initializedContentScript => initializedContentScript'
     /\ AgentReadyStep =>
          /\ initializedContentScript'
          /\ queuedPrefetches' = <<>>
               \/ Cardinality(outstandingPrefetchUrls') >= OUTSTANDING_REQUESTS_ALLOWED
          /\ (outstandingPrefetchUrls = {} /\ queuedPrefetches = <<>>
                /\ NextPriority(dependencies) # -1) =>
               /\ fetched' # <<>>
               /\ curFetchPriority' = NextPriority(dependencies)
               /\ dependencies'[NextPriority(dependencies)] = <<>>
               /\ Len(passed') = Len(passed) + Len(fetched')
     /\ (initializedContentScript /\ OnContentMessage([type |-> CONTENT_SCRIPT_INIT])) =>
          /\ UNCHANGED SchedulerFields
          /\ fetched' = <<>> /\ notified' = <<>> /\ passed' = passed]_vars

\* The agent is ready, nothing is in flight and a tier holds a resource
\* that arrived later; the latest handler, a message of the agent, has
\* left it there.
C16_LaterInitFindsWork ==
  /\ initializedContentScript
  /\ outstandingPrefetchUrls = {} /\ queuedPrefetches = <<>>
  /\ NextPriority(dependencies) # -1
  /\ notified = <<>> /\ fetched = <<>>
  /\ returned = Undefined

\* ------------------------------------------------------------------------
\* C17  navigatedToDst_ is false at first, becomes true exactly in an
\* onSendHeaders_ event whose url equals lpUrl as it is at that moment, and
\* is never set back to false, not even when a later x-lp-url header
\* changes lpUrl.
\* ------------------------------------------------------------------------
C17_NavigatedLatch ==
  /\ ~navigatedToDst
  /\ [][navigatedToDst' =
          (navigatedToDst
             \/ \E d \in NavSendDetails : d.url = lpUrl /\ OnSendHeaders(d))]_vars

\* The browser has navigated, a later x-lp-url header has named a landing
\* page that was never requested, and navigatedToDst_ is still true.
C17_LandingPageChangedAfterNavigation ==
  /\ navigatedToDst
  /\ lpUrl \notin requestedURLs
  /\ requestedURLs # {}

\* ------------------------------------------------------------------------
\* C20  requestedURLs_ only grows: every onSendHeaders_ event adds its url,
\* whether or not it is the landing page or a prefetch, and no event
\* removes a URL.
\* ------------------------------------------------------------------------
C20_RequestedAppendOnly ==
  [][/\ requestedURLs \subseteq requestedURLs'
     /\ \A d \in NavSendDetails :
          OnSendHeaders(d) => requestedURLs' = requestedURLs \cup {d.url}]_vars

\* The landing page and another URL, sent as a prefetch, are both recorded,
\* and the fetch of one of them has completed since.
C20_BothRecorded ==
  /\ navigatedToDst /\ lpUrl \in requestedURLs
  /\ Cardinality(requestedURLs) = 2
  /\ \E id \in DOMAIN registered : registered[id].isPrefetch
  /\ CompletionLogs # {}

\* ------------------------------------------------------------------------
\* C21  requestedURLs_ and the requests of prefetches.  As stated: an
\* onSendHeaders_ event of a request that carries Purpose: prefetch does
\* not by itself put its url in requestedURLs_, which holds only URLs the
\* browser requested for real.
\* ------------------------------------------------------------------------
C21_PrefetchNotRecorded ==
  [][\A d \in NavSendDetails :
       (/\ OnSendHeaders(d)
        /\ C19_PurposePrefetch(d.requestHeaders)
        /\ d.url \notin requestedURLs) => d.url \notin requestedURLs']_vars

\* C21 as amended: requestedURLs_ is empty at first and holds the URLs of
\* the onSendHeaders_ events handled so far, of real requests and of
\* prefetches alike: a URL enters it only in an onSendHeaders_ event that
\* carries it, and the event of a request with Purpose: prefetch, sent
\* because of a dispatched directive, puts its url there as well.
C21_RequestedIsSent ==
  /\ requestedURLs = {}
  /\ [][/\ requestedURLs' # requestedURLs =>
             \E d \in NavSendDetails :
               /\ OnSendHeaders(d)
               /\ requestedURLs' \ requestedURLs = {d.url}
        /\ \A d \in NavSendDetails :
             (OnSendHeaders(d) /\ C19_PurposePrefetch(d.requestHeaders))
               => d.url \in requestedURLs']_vars

\* The request of a dispatched resource has been sent with Purpose:
\* Prefetch while the resource is in flight: its url is recorded as
\* requested although the browser requested nothing else.
C21_PrefetchRecorded ==
  /\ Cardinality(requestedURLs) = 1
  /\ requestedURLs = outstandingPrefetchUrls
  /\ "r1" \in DOMAIN registered
  /\ registered["r1"].isPrefetch
  /\ GetCompleteTime(timeTracker, "r1") = -1
  /\ returned = Undefined /\ notified = <<>>

\* ------------------------------------------------------------------------
\* C22  queuedPrefetches_ holds resources of one tier: whenever it is not
\* empty, curFetchPriority_ is a tier, 0 .. NUM_PRIORITIES - 1, and every
\* queued resource was parsed into that tier; and every resource passed to
\* fetchDependency is passed with the tier it was parsed into as priority.
\* ------------------------------------------------------------------------
C22_SingleTierQueue ==
  /\ queuedPrefetches # <<>> =>
       /\ curFetchPriority \in 0 .. (NUM_PRIORITIES - 1)
       /\ \A i \in DOMAIN queuedPrefetches :
            queuedPrefetches[i].tier = curFetchPriority
  /\ \A i \in DOMAIN fetched : fetched[i].priority = fetched[i].resource.tier

\* Seven resources of tier 0 have been dispatched, the eighth waits in the
\* queue and tier 1 holds a resource as well.
C22_QueuedWhileTierWaits ==
  /\ queuedPrefetches # <<>>
  /\ curFetchPriority = 0
  /\ Len(fetched) = OUTSTANDING_REQUESTS_ALLOWED
  /\ dependencies[1] # <<>>

\* ------------------------------------------------------------------------
\* C23  With OUTSTANDING_REQUESTS_ALLOWED or more URLs in flight a refill
\* pass does nothing: the tiers, the queue, curFetchPriority_,
\* outstandingPrefetchUrls_ and requestedURLs_ stay as they are and the
\* pass sends no directive and no LOG_TIMING message.  (For a completed or
\* errored event the URLs in flight are counted once the url of the event
\* is deleted, and the log of the event itself follows the pass.)
\* ------------------------------------------------------------------------
C23_AtCapacity(outstanding) ==
  Cardinality(outstanding) >= OUTSTANDING_REQUESTS_ALLOWED

C23_PassDidNothing(outstanding) ==
  /\ UNCHANGED <<dependencies, queuedPrefetches, curFetchPriority, requestedURLs,
                 passed>>
  /\ outstandingPrefetchUrls' = outstanding
  /\ fetched' = <<>>
  /\ \A i \in DOMAIN notified' :
       ~IsDirective(notified'[i]) /\ IsCompletionLog(notified'[i])

C23_NoCapacityNoOp ==
  [][/\ (C23_AtCapacity(outstandingPrefetchUrls) /\ AgentReadyStep)
          => (C23_PassDidNothing(outstandingPrefetchUrls) /\ notified' = <<>>)
     /\ \A d \in AllDoneDetails :
          (C23_AtCapacity(outstandingPrefetchUrls \ {d.url}) /\ CompletionStep(d))
            => (C23_PassDidNothing(outstandingPrefetchUrls \ {d.url})
                  /\ Len(notified') = 1)]_vars

\* Seven URLs are in flight, a resource waits in the queue, and an event
\* for a URL that is not in flight has just been handled and logged.
C23_FullAndQueued ==
  /\ Cardinality(outstandingPrefetchUrls) = OUTSTANDING_REQUESTS_ALLOWED
  /\ queuedPrefetches # <<>>
  /\ fetched = <<>>
  /\ \E j \in CompletionLogs : notified[j].url \notin outstandingPrefetchUrls

\* ------------------------------------------------------------------------
\* C24  A URL leaves outstandingPrefetchUrls_ only in a completed or errored
\* event that carries this url: no onSendHeaders_, onHeadersReceived_ or
\* content-script event and no refill pass removes it, so a URL whose
\* event never arrives keeps its slot for ever.
\* ------------------------------------------------------------------------
C24_LeavesOnlyOnCompletion ==
  [][\A u \in outstandingPrefetchUrls \ outstandingPrefetchUrls' :
       \E d \in AllDoneDetails : d.url = u /\ CompletionStep(d)]_vars

\* u1 is in flight with six others while the browser has requested u1
\* itself, the content script has started and a later hint has arrived.
C24_SlotKept ==
  /\ Cardinality(outstandingPrefetchUrls) = OUTSTANDING_REQUESTS_ALLOWED
  /\ "u1" \in outstandingPrefetchUrls
  /\ "u1" \in requestedURLs
  /\ initializedContentScript
  /\ dependencies[1] # <<>>

\* ------------------------------------------------------------------------
\* C25  The refill pass runs only in a completed or errored event and in
\* the first CONTENT_SCRIPT_INIT message, and it runs in every completed or
\* errored event, whether or not the content script has started.  An
\* onSendHeaders_ or onHeadersReceived_ event sends no directive and leaves
\* outstandingPrefetchUrls_, the queue and curFetchPriority_ unchanged;
\* onHeadersReceived_ only appends to the tiers and sets lpUrl, and returns
\* the headers it was given.
\* ------------------------------------------------------------------------
C25_NoDirective == \A i \in DOMAIN notified' : ~IsDirective(notified'[i])

C25_RefillRan(outstanding) ==
  /\ queuedPrefetches' = <<>>
       \/ Cardinality(outstandingPrefetchUrls') >= OUTSTANDING_REQUESTS_ALLOWED
  /\ (outstanding = {} /\ queuedPrefetches = <<>> /\ NextPriority(dependencies) # -1)
       => /\ fetched' # <<>>
          /\ dependencies'[NextPriority(dependencies)] = <<>>
          /\ curFetchPriority' = NextPriority(dependencies)

C25_HeadersReceivedFrame(hl) ==
  /\ C25_NoDirective
  /\ UNCHANGED <<outstandingPrefetchUrls, queuedPrefetches, curFetchPriority>>
  /\ \A t \in Tiers :
       /\ Len(dependencies[t]) <= Len(dependencies'[t])
       /\ SubSeq(dependencies'[t], 1, Len(dependencies[t])) = dependencies[t]
  /\ returned' = [kind |-> "object", requestHeaders |-> hl]

C25_Step(headerLists, sendDetails, doneDetails) ==
  /\ (\/ fetched' # <<>>
      \/ queuedPrefetches' # queuedPrefetches
      \/ curFetchPriority' # curFetchPriority)
       => (AgentReadyStep \/ \E d \in doneDetails : CompletionStep(d))
  /\ \A d \in doneDetails :
       CompletionStep(d) => C25_RefillRan(outstandingPrefetchUrls \ {d.url})
  /\ \A hl \in headerLists :
       OnHeadersReceived([url |-> "u1", responseHeaders |-> hl])
         => C25_HeadersReceivedFrame(hl)
  /\ \A d \in sendDetails :
       OnSendHeaders(d) =>
         /\ C25_NoDirective
         /\ UNCHANGED <<outstandingPrefetchUrls, queuedPrefetches, curFetchPriority,
                        dependencies>>

C25_RefillTriggers ==
  [][C25_Step(ParseHeaderLists, NavSendDetails,
              DoneDetails({"u1"}, RequestIds, Times))]_vars

\* ------------------------------------------------------------------------
\* C26  Resource conservation: after any sequence of events every resource
\* of a hint entry is in exactly one of four places: in its tier, in the
\* queue, dispatched with one directive, or refused with one "late" log.
\* No resource is lost and none is dispatched or logged more than once.
\* ------------------------------------------------------------------------
\* The places that hold the resource parsed as number n: in a tier, in the
\* queue, or among the calls of fetchDependency.
C26_InTier(n) ==
  {<<t, j>> \in {u \in Tiers : dependencies[u] # <<>>} \X (1 .. parsedCount) :
     j \in DOMAIN dependencies[t] /\ dependencies[t][j].seq = n}

C26_InQueue(n) == {j \in DOMAIN queuedPrefetches : queuedPrefetches[j].seq = n}

C26_Passed(n) == {j \in DOMAIN passed : passed[j].seq = n}

C26_OnePlace ==
  \A n \in 1 .. parsedCount :
    Cardinality(C26_InTier(n)) + Cardinality(C26_InQueue(n))
      + Cardinality(C26_Passed(n)) = 1

\* Every entry of a hint that onHeadersReceived_ is given becomes a resource.
C26_EveryEntryStored(headerLists) ==
  \A hl \in headerLists :
    OnHeadersReceived([url |-> "u1", responseHeaders |-> hl])
      => parsedCount' = parsedCount + EntryCount(hl)

C26_Conservation ==
  /\ []C26_OnePlace
  /\ [][C26_EveryEntryStored(ParseHeaderLists)]_vars

\* ------------------------------------------------------------------------
\* C27  Progress: once the content script has started, if every URL in
\* flight gets its completed or errored event and nothing else happens,
\* every resource parsed into a tier is in the end dispatched or logged
\* "late": no resource stays in a tier or in the queue.
\* ------------------------------------------------------------------------
C27_Progress ==
  initializedContentScript ~> (Pending(dependencies, queuedPrefetches) = {})

\* C27, its safety part: a refill pass of a completed or errored event
\* never ends with nothing in flight and nothing queued while a tier still
\* holds a resource, also when every resource of the tier it drained was
\* refused as "late".
C27_RefillNeverStalls ==
  CompletionLogs # {} =>
    ~(/\ outstandingPrefetchUrls = {}
      /\ queuedPrefetches = <<>>
      /\ NextPriority(dependencies) # -1)

\* ------------------------------------------------------------------------
\* C28  In-flight directive bound: the directives sent for which no
\* completed or errored event of their url has been handled yet are never
\* more than OUTSTANDING_REQUESTS_ALLOWED, also when a tier holds several
\* resources of one URL.  The directives one handler sends for URLs other
\* than the url of its own event are all among them: no event is handled
\* between them.
\* ------------------------------------------------------------------------
C28_DirectivesOfHandler ==
  {i \in DOMAIN notified :
     /\ IsDirective(notified[i])
     /\ \A j \in CompletionLogs : notified[j].url # notified[i].url}

C28_InFlightDirectiveBound ==
  Cardinality(C28_DirectivesOfHandler) <= OUTSTANDING_REQUESTS_ALLOWED

\* ------------------------------------------------------------------------
\* C29  Whose event frees a slot.  As stated: a completed or errored event
\* of a request that is not the one the dispatched directive caused (a
\* request the tracker does not know as a prefetch: not a prefetch, or
\* never registered) and that carries the url of a URL in flight leaves
\* the URL in outstandingPrefetchUrls_.
\* ------------------------------------------------------------------------
C29_OtherRequestKeepsSlot ==
  [][\A d \in NavDoneDetails :
       (/\ d.url \in outstandingPrefetchUrls
        /\ IsPrefetchRequest(timeTracker, d.requestId) # PrefetchStatus.YES
        /\ CompletionStep(d)) => d.url \in outstandingPrefetchUrls']_vars

\* C29 as amended: every completed or errored event removes its url from
\* outstandingPrefetchUrls_, whatever request it belongs to: the event of a
\* request that is not a prefetch or was never registered frees the slot
\* as well.  After the event the set holds the other URLs that were in
\* flight and the URLs its refill pass dispatched.  (Such an event always
\* sends its log, so only steps that sent a message are looked at.)
C29_AnyEventFreesSlot ==
  [][\A d \in NavDoneDetails :
       (notified' # <<>> /\ CompletionStep(d)) =>
         outstandingPrefetchUrls' =
           (outstandingPrefetchUrls \ {d.url})
             \cup {fetched'[i].resource.url :
                     i \in {k \in DOMAIN fetched' : fetched'[k].outcome # "late"}}]_vars

\* A resource was dispatched, no request was ever registered, and the
\* event just handled, of an unregistered request, has left nothing in
\* flight.
C29_FreedByUnregisteredRequest ==
  /\ registered = <<>>
  /\ \E i \in DOMAIN passed : IsDirective([type |-> passed[i].outcome])
  /\ outstandingPrefetchUrls = {}
  /\ fetched = <<>>
  /\ CompletionLogs # {}

=============================================================================
